---- MODULE Spec2Model ----
(***************************************************************************)
(* Commit synchronization of scrapbox-userscript-std: pull the head of a   *)
(* page over REST (robustFetch -> getPage -> pull), compute changes with   *)
(* the caller's change computer (deletePage's among them), submit a        *)
(* PageCommit over the shared socket and react to the answer.              *)
(***************************************************************************)
EXTENDS Integers, Sequences, FiniteSets, TLC

\* ---------------------------------------------------------------- bounds
Callers == {1, 2}
Docs == {1}
MaxOtherEdits == 2
Budget == 1

\* ------------------------------------------------------- REST: one fetch
\* What the platform fetch can do with the request of getPage: resolve with
\* a Response or throw.  A Response is its ok flag, its status and the
\* "name" field of its JSON body.
Responses ==
  { [ok |-> TRUE,  status |-> 200, name |-> "none"],
    [ok |-> FALSE, status |-> 404, name |-> "NotFoundError"],
    [ok |-> FALSE, status |-> 401, name |-> "NotLoggedInError"],
    [ok |-> FALSE, status |-> 403, name |-> "NotMemberError"],
    [ok |-> FALSE, status |-> 414, name |-> "none"],
    [ok |-> FALSE, status |-> 414, name |-> "NotFoundError"],
    [ok |-> FALSE, status |-> 400, name |-> "InvalidURLError"],
    [ok |-> FALSE, status |-> 500, name |-> "none"] }

\* An exception is its class and its name property.
Exception(class, name) == [class |-> class, name |-> name]
NoException == Exception("none", "none")
NoResponse == [ok |-> FALSE, status |-> 0, name |-> "none"]
Resolves(r) == [kind |-> "resolve", response |-> r, exc |-> NoException]
Throws(e) == [kind |-> "throw", response |-> NoResponse, exc |-> e]

FetchOutcomes ==
  { Resolves(r) : r \in Responses }
  \cup
  { Throws(e) : e \in { Exception("DOMException", "AbortError"),
                        Exception("TypeError", "TypeError"),
                        Exception("RangeError", "RangeError") } }

Ok(v) == [tag |-> "Ok", val |-> v]
Err(n) == [tag |-> "Err", val |-> n]
Throw(n) == [tag |-> "Throw", val |-> n]

\* robustFetch: Ok(response) when fetch resolves, Err(AbortError) for a
\* DOMException named AbortError, Err(NetworkError) for a TypeError, and
\* any other exception is rethrown.
robustFetchSwallows(o) ==
  IF o.kind = "resolve" THEN Ok(o.response) ELSE Err("NetworkError")
robustFetch(o) ==
  IF o.kind = "resolve" THEN Ok(o.response)
  ELSE IF o.exc.class = "DOMException" /\ o.exc.name = "AbortError"
       THEN Err("AbortError")
  ELSE IF o.exc.class = "TypeError" THEN Err("NetworkError")
  ELSE Throw(o.exc.name)

\* responseIntoResult: a non-OK response becomes Err(HTTPError).
responseIntoResult(res) ==
  IF res.ok THEN Ok(res) ELSE Err("HTTPError")

\* parseHTTPError: the body's error name when it is one of the names asked
\* for, nothing ("none") otherwise.
parseHTTPError(res, names) ==
  IF res.name \in names THEN res.name ELSE "none"

\* getPage.fromResponse: page JSON for an OK response; 414 is
\* TooLongURIError; a recognised body name is that error; HTTPError else.
getPage_fromResponse(res, page) ==
  IF responseIntoResult(res).tag = "Ok" THEN Ok(page)
  ELSE IF res.status = 414 THEN Err("TooLongURIError")
  ELSE LET m == parseHTTPError(res,
                  {"NotFoundError", "NotLoggedInError", "NotMemberError"})
       IN IF m # "none" THEN Err(m) ELSE Err("HTTPError")

\* getPage: andThen of the fetch result with fromResponse; a fetch error
\* is passed through, a rethrown exception propagates.
getPageParsesAlways(o, page) ==
  getPage_fromResponse(o.response, page)
getPage(o, page) ==
  LET f == robustFetch(o)
  IN IF f.tag = "Ok" THEN getPage_fromResponse(f.val, page) ELSE f

\* pull: the HeadData of the page, or a thrown Error whose message names
\* only the project and title, whatever made getPage fail.
NoPrivilege(d) == [name |-> "Error", message |-> "You have no privilege of editing", title |-> d]

pullStale(d, o, page) ==
  LET result == getPage(o, page)
  IN IF result.tag = "Throw" THEN Throw([name |-> result.val, message |-> "rethrown", title |-> d])
     ELSE IF result.tag # "Ok" THEN Throw(NoPrivilege(d))
     ELSE Ok([commitId |-> 1,
              pageId |-> result.val.id,
              persistent |-> result.val.persistent])

pull(d, o, page) ==
  LET result == getPage(o, page)
  IN IF result.tag = "Throw" THEN Throw([name |-> result.val, message |-> "rethrown", title |-> d])
     ELSE IF result.tag # "Ok" THEN Throw(NoPrivilege(d))
     ELSE Ok([commitId |-> result.val.commitId,
              pageId |-> result.val.id,
              persistent |-> result.val.persistent])

\* ------------------------------------------------------------ the changes
\* A change is represented by its kind.  Change (change.ts) is the union of
\* the content and metadata changes; PinChange and DeletePageChange are
\* outside it.
Change ==
  { "insert", "update", "delete", "links", "projectLinks", "icons",
    "descriptions", "image", "files", "helpfeels", "infoboxDefinition",
    "title" }
PinChange == "pin"
DeletePageChange == "deleted"

\* PageCommit.changes : Change[] | [PinChange] | [DeletePageChange]
PageCommitChangesAny(changes) == Len(changes) >= 0
PageCommitChanges(changes) ==
  \/ \A i \in 1..Len(changes) : changes[i] \in Change
  \/ changes = <<PinChange>>
  \/ changes = <<DeletePageChange>>

\* The change computer deletePage hands to push.
deletePageAlways(page) == <<DeletePageChange>>
deletePageAndEdit(page) ==
  IF page.persistent THEN <<"update", DeletePageChange>> ELSE <<>>
deletePageComputer(page) ==
  IF page.persistent THEN <<DeletePageChange>> ELSE <<>>

\* The change computers the callers of the model use: deletePage's, and
\* four fixed ones standing for caller-supplied pure functions.
Computers == {"deletePage", "retitle", "pin", "pinAndEdit", "deleteAndEdit"}

ChangeComputer(c, page) ==
  CASE c = "deletePage" -> deletePageComputer(page)
    [] c = "retitle" -> <<"title", "update">>
    [] c = "pin" -> <<PinChange>>
    [] c = "pinAndEdit" -> <<PinChange, "update">>
    [] c = "deleteAndEdit" -> <<"update", DeletePageChange>>

\* isPageCommitError: the name is one of pageCommitErrorNames.
pageCommitErrorNamesAndTimeout ==
  {"SocketIOError", "DuplicateTitleError", "NotFastForwardError", "TimeoutError"}
pageCommitErrorNames == {"SocketIOError", "DuplicateTitleError", "NotFastForwardError"}
isPageCommitErrorAny(name) == TRUE
isPageCommitError(name) == name \in pageCommitErrorNames

\* ------------------------------------------------------------- the state
VARIABLES
  head,        \* server: commit id of the head of each page
  persistent,  \* server: whether the page exists with content
  otherEdits,  \* number of commits other sessions have made
  lock,        \* engine: the caller holding each page, 0 for none
  pc,          \* engine state of each caller
  doc,         \* the page a caller synchronizes
  computer,    \* the change computer it was given
  snapshot,    \* the HeadData of the latest pull
  commit,      \* the PageCommit built for the current attempt
  chan,        \* the socket.io request of the caller and its answer
  attempts,    \* retry counter
  pulled,      \* commit ids the REST API served to the pulls so far
  computes,    \* invocations of the change computer so far
  sent,        \* commits emitted so far, in order
  acks,        \* answers received so far, in order
  cause,       \* what getPage returned to the failed pull
  result,      \* what the call returned or threw
  joined,      \* server: the page rooms the session has been put in
  member,      \* engine: the page rooms it knows the session to be in
  join,        \* the room:join request of the caller, the failed joins
  io,          \* a function of the library applied on its own: input, output
  socket,      \* a socket and the one listener that listen gives it
  gcs,         \* an uploadToGCS call: the requests it issued, its result
  mouse        \* a click or holdDown call: the events it dispatched, the time

vars == <<head, persistent, otherEdits, lock, pc, doc, computer, snapshot,
          commit, chan, attempts, pulled, computes, sent, acks, cause, result,
          joined, member, join, io, socket, gcs, mouse>>

NoOne == 0
NoSnapshot == [commitId |-> 0, pageId |-> 0, persistent |-> FALSE]
NoCommit == [parentId |-> 0, pageId |-> 0, changes |-> <<>>]
Silent == [type |-> "none", commit |-> NoCommit, name |-> "none", commitId |-> 0]
NoError == [name |-> "none", message |-> "none", title |-> 0]
NoJoin == [state |-> "none", failures |-> 0]
NoResult == [tag |-> "None", error |-> NoError, commitId |-> 0]
\* What a call hands back: createOk(commitId), createErr(error), or an
\* exception leaving the call.
Returned(id) == [tag |-> "Ok", error |-> NoError, commitId |-> id]
Failure(name, message, d) ==
  [tag |-> "Err", error |-> [name |-> name, message |-> message, title |-> d],
   commitId |-> 0]
Raised(e) == [tag |-> "Throw", error |-> e, commitId |-> 0]

Terminal == {"Succeeded", "Failed", "Thrown", "Cancelled"}

\* No function is being applied on its own.
NoPage == [commitId |-> 0, id |-> 0, persistent |-> FALSE]
NoOutput == [tag |-> "None", val |-> "none"]
NoIO == [fn |-> "none", outcome |-> Throws(NoException), page |-> NoPage,
         name |-> "none", out |-> NoOutput, done |-> FALSE]
\* No socket, upload or mouse gesture is under way.
NoSocket == [fn |-> "none"]
NoGCS == [fn |-> "none"]
NoMouse == [fn |-> "none"]

lib == <<io, socket, gcs, mouse>>

\* The engine before any call.
Boot ==
  /\ head = [d \in Docs |-> 1]
  /\ persistent \in [Docs -> BOOLEAN]
  /\ otherEdits = 0
  /\ lock = [d \in Docs |-> NoOne]
  /\ pc = [p \in Callers |-> "Idle"]
  /\ doc = [p \in Callers |-> 1]
  /\ computer = [p \in Callers |-> "deletePage"]
  /\ snapshot = [p \in Callers |-> NoSnapshot]
  /\ commit = [p \in Callers |-> NoCommit]
  /\ chan = [p \in Callers |-> Silent]
  /\ attempts = [p \in Callers |-> 0]
  /\ pulled = [p \in Callers |-> <<>>]
  /\ computes = [p \in Callers |-> 0]
  /\ sent = [p \in Callers |-> <<>>]
  /\ acks = [p \in Callers |-> <<>>]
  /\ cause = [p \in Callers |-> "none"]
  /\ result = [p \in Callers |-> NoResult]
  /\ joined = [d \in Docs |-> FALSE]
  /\ member = [d \in Docs |-> FALSE]
  /\ join = [p \in Callers |-> NoJoin]

Init ==
  /\ Boot
  /\ io = NoIO /\ socket = NoSocket /\ gcs = NoGCS /\ mouse = NoMouse

\* The page JSON the REST API serves for page d right now.
PageOf(d) == [commitId |-> head[d], id |-> d, persistent |-> persistent[d]]

\* ------------------------------------------------------------ the engine
\* A caller asks for page d to be synchronized with change computer c.
Request(p, d, c) ==
  /\ UNCHANGED <<lib, joined, member, join>>
  /\ pc[p] = "Idle"
  /\ pc' = [pc EXCEPT ![p] = "Queued"]
  /\ doc' = [doc EXCEPT ![p] = d]
  /\ computer' = [computer EXCEPT ![p] = c]
  /\ UNCHANGED <<head, persistent, otherEdits, lock, snapshot, commit, chan,
                 attempts, pulled, computes, sent, acks, cause, result>>

Release(p) ==
  IF lock[doc[p]] = p THEN [lock EXCEPT ![doc[p]] = NoOne] ELSE lock

\* No attempt is in progress for page d.
FreeAlways(d) == TRUE
Free(d) == lock[d] = NoOne

\* Idle -> Pulling: the attempt starts once no other attempt holds the page.
Acquire(p) ==
  /\ UNCHANGED <<lib, joined, member, join>>
  /\ pc[p] = "Queued"
  /\ Free(doc[p])
  /\ lock' = [lock EXCEPT ![doc[p]] = p]
  /\ pc' = [pc EXCEPT ![p] = "Pulling"]
  /\ UNCHANGED <<head, persistent, otherEdits, doc, computer, snapshot, commit,
                 chan, attempts, pulled, computes, sent, acks, cause, result>>



\* Pulling: pull(project, title) returns the head or throws.
Pull(p, o) ==
  /\ UNCHANGED <<lib, joined, member, join>>
  /\ pc[p] = "Pulling"
  /\ LET r == pull(doc[p], o, PageOf(doc[p]))
         g == getPage(o, PageOf(doc[p]))
     IN IF r.tag = "Ok"
        THEN /\ snapshot' = [snapshot EXCEPT ![p] = r.val]
             /\ pulled' = [pulled EXCEPT ![p] = Append(@, head[doc[p]])]
             /\ pc' = [pc EXCEPT ![p] = "Computing"]
             /\ UNCHANGED <<cause, result>>
        ELSE /\ result' = [result EXCEPT ![p] = Raised(r.val)]
             /\ cause' = [cause EXCEPT ![p] = g.val]
             /\ pc' = [pc EXCEPT ![p] = "Thrown"]
             /\ UNCHANGED <<snapshot, pulled>>
  /\ UNCHANGED <<head, persistent, otherEdits, lock, doc, computer, commit, chan,
                 attempts, computes, sent, acks>>

Range(f) == { f[i] : i \in DOMAIN f }
Last(q) == q[Len(q)]

Request_(type, c) == [type |-> type, commit |-> c, name |-> "none", commitId |-> 0]
Answer(c, name, id) == [type |-> "res", commit |-> c, name |-> name, commitId |-> id]

\* The commit of one attempt: its parent is the commit id just pulled.
makeCommitStale(page, changes) ==
  [parentId |-> 1, pageId |-> page.pageId, changes |-> changes]
makeCommit(page, changes) ==
  [parentId |-> page.commitId, pageId |-> page.pageId, changes |-> changes]

Emitted(p, c) == [commit |-> c, pulls |-> Len(pulled[p]), computes |-> computes'[p]]

\* The session has to join the room of page d before a commit for it.
NeedsJoinNever(d) == FALSE
NeedsJoin(d) == ~member[d]

\* Computing, then Submitting: the change computer runs against the head;
\* an empty list ends the call with the head's commit id, a list that is
\* not a PageCommit change list is refused locally, anything else is
\* emitted as a commit request, after a room:join request when the session
\* is not yet in the room of the page.
Compute(p) ==
  /\ UNCHANGED <<lib, joined, member>>
  /\ pc[p] = "Computing"
  /\ computes' = [computes EXCEPT ![p] = @ + 1]
  /\ LET changes == ChangeComputer(computer[p], snapshot[p])
         c == makeCommit(snapshot[p], changes)
     IN IF changes = <<>>
        THEN /\ pc' = [pc EXCEPT ![p] = "Succeeded"]
             /\ result' = [result EXCEPT ![p] = Returned(snapshot[p].commitId)]
             /\ UNCHANGED <<commit, chan, sent, join>>
        ELSE IF ~PageCommitChanges(changes)
        THEN /\ pc' = [pc EXCEPT ![p] = "Thrown"]
             /\ result' = [result EXCEPT ![p] =
                   Raised([name |-> "TypeError", message |-> "invalid changes",
                           title |-> doc[p]])]
             /\ UNCHANGED <<commit, chan, sent, join>>
        ELSE IF NeedsJoin(doc[p])
        THEN /\ commit' = [commit EXCEPT ![p] = c]
             /\ join' = [join EXCEPT ![p].state = "req"]
             /\ pc' = [pc EXCEPT ![p] = "Joining"]
             /\ UNCHANGED <<chan, sent, result>>
        ELSE /\ commit' = [commit EXCEPT ![p] = c]
             /\ chan' = [chan EXCEPT ![p] = Request_("req", c)]
             /\ sent' = [sent EXCEPT ![p] = Append(@, Emitted(p, c))]
             /\ pc' = [pc EXCEPT ![p] = "Submitting"]
             /\ UNCHANGED <<result, join>>
  /\ UNCHANGED <<head, persistent, otherEdits, lock, doc, computer, snapshot,
                 attempts, pulled, acks, cause>>

\* The retry budget still allows the n-th retry.
UnderBudgetAlways(n) == TRUE
UnderBudget(n) == n <= Budget

\* The server answers the room:join request: the session is put in the
\* room of the page, or the request fails.
ServerJoin(p, ok) ==
  /\ join[p].state = "req"
  /\ joined' = [joined EXCEPT ![doc[p]] = @ \/ ok]
  /\ join' = [join EXCEPT ![p].state = IF ok THEN "ok" ELSE "err"]
  /\ UNCHANGED <<head, persistent, otherEdits, lock, pc, doc, computer,
                 snapshot, commit, chan, attempts, pulled, computes, sent,
                 acks, cause, result, member, lib>>

\* Joining: the answer to room:join arrives.  Joined, the commit goes out;
\* a failed join is a transport failure, retried within the budget.
JoinDone(p) ==
  /\ pc[p] = "Joining"
  /\ join[p].state \in {"ok", "err"}
  /\ IF join[p].state = "ok"
     THEN /\ member' = [member EXCEPT ![doc[p]] = TRUE]
          /\ join' = [join EXCEPT ![p].state = "none"]
          /\ chan' = [chan EXCEPT ![p] = Request_("req", commit[p])]
          /\ sent' = [sent EXCEPT ![p] = Append(@,
                [commit |-> commit[p], pulls |-> Len(pulled[p]),
                 computes |-> computes[p]])]
          /\ pc' = [pc EXCEPT ![p] = "Submitting"]
          /\ UNCHANGED <<attempts, result>>
     ELSE /\ attempts' = [attempts EXCEPT ![p] = @ + 1]
          /\ IF UnderBudget(attempts[p] + 1)
             THEN /\ pc' = [pc EXCEPT ![p] = "Retrying"]
                  /\ join' = [join EXCEPT ![p] =
                        [state |-> "failed", failures |-> @.failures + 1]]
                  /\ UNCHANGED result
             ELSE /\ pc' = [pc EXCEPT ![p] = "Failed"]
                  /\ join' = [join EXCEPT ![p] =
                        [state |-> "none", failures |-> @.failures + 1]]
                  /\ result' = [result EXCEPT ![p] =
                        Failure("SocketIOError", "room:join", doc[p])]
          /\ UNCHANGED <<member, chan, sent>>
  /\ UNCHANGED <<head, persistent, otherEdits, lock, doc, computer, snapshot,
                 commit, pulled, computes, acks, cause, joined, lib>>

\* Retrying after a failed join: the room:join request is made again.
Rejoin(p) ==
  /\ pc[p] = "Retrying"
  /\ join[p].state = "failed"
  /\ join' = [join EXCEPT ![p].state = "req"]
  /\ pc' = [pc EXCEPT ![p] = "Joining"]
  /\ UNCHANGED <<head, persistent, otherEdits, lock, doc, computer, snapshot,
                 commit, chan, attempts, pulled, computes, sent, acks, cause,
                 result, joined, member, lib>>

\* The server serializes the commits of a page: a commit whose parent is
\* the head is applied and answered with its commit id, unless its new
\* title is taken; any other parent is answered NotFastForwardError.
ServerCommit(p, taken) ==
  /\ UNCHANGED <<lib, joined, member, join>>
  /\ chan[p].type = "req"
  /\ LET c == chan[p].commit
         d == c.pageId
     IN IF c.parentId # head[d]
        THEN /\ chan' = [chan EXCEPT ![p] = Answer(c, "NotFastForwardError", 0)]
             /\ UNCHANGED <<head, persistent>>
        ELSE IF "title" \in Range(c.changes) /\ taken
        THEN /\ chan' = [chan EXCEPT ![p] = Answer(c, "DuplicateTitleError", 0)]
             /\ UNCHANGED <<head, persistent>>
        ELSE /\ head' = [head EXCEPT ![d] = @ + 1]
             /\ persistent' = [persistent EXCEPT ![d] =
                   IF c.changes = <<DeletePageChange>> THEN FALSE
                   ELSE IF c.changes = <<PinChange>> THEN @ ELSE TRUE]
             /\ chan' = [chan EXCEPT ![p] = Answer(c, "ok", head[d] + 1)]
  /\ UNCHANGED <<otherEdits, lock, pc, doc, computer, snapshot, commit,
                 attempts, pulled, computes, sent, acks, cause, result>>

\* The channel or the server answers the request with an error without
\* touching the page.
ServerErrorNames == {"SocketIOError", "BadRequestError"}

ServerError(p, name) ==
  /\ UNCHANGED <<lib, joined, member, join>>
  /\ chan[p].type = "req"
  /\ chan' = [chan EXCEPT ![p] = Answer(chan[p].commit, name, 0)]
  /\ UNCHANGED <<head, persistent, otherEdits, lock, pc, doc, computer,
                 snapshot, commit, attempts, pulled, computes, sent, acks,
                 cause, result>>

\* What the retry loop does with an error name: a timeout of the
\* acknowledgement is a transient channel failure; the three page commit
\* errors are retried after a delay (SocketIOError), rebased
\* (NotFastForwardError) or terminal (DuplicateTitleError); any other name
\* is an unexpected error.
classifyTitleRetried(name) ==
  IF name = "TimeoutError" THEN "delay"
  ELSE IF ~isPageCommitError(name) THEN "unexpected"
  ELSE IF name = "SocketIOError" THEN "delay"
  ELSE "rebase"
classifyAlwaysRebase(name) ==
  IF name = "TimeoutError" THEN "delay"
  ELSE IF ~isPageCommitError(name) THEN "unexpected"
  ELSE IF name = "DuplicateTitleError" THEN "terminal"
  ELSE "rebase"
classifyTimeoutUnexpected(name) ==
  IF ~isPageCommitError(name) THEN "unexpected"
  ELSE IF name = "SocketIOError" THEN "delay"
  ELSE IF name = "NotFastForwardError" THEN "rebase"
  ELSE "terminal"
classify(name) ==
  IF name = "TimeoutError" THEN "delay"
  ELSE IF ~isPageCommitError(name) THEN "unexpected"
  ELSE IF name = "SocketIOError" THEN "delay"
  ELSE IF name = "NotFastForwardError" THEN "rebase"
  ELSE "terminal"

\* The wait for the acknowledgement is over with outcome name: the
\* correlated waiter is gone, and the call succeeds, fails or goes to
\* Retrying.
Settle(p, name, id) ==
  /\ chan' = [chan EXCEPT ![p] = Silent]
  /\ acks' = [acks EXCEPT ![p] = Append(@, name)]
  /\ IF name = "ok"
     THEN /\ pc' = [pc EXCEPT ![p] = "Succeeded"]
          /\ result' = [result EXCEPT ![p] = Returned(id)]
          /\ UNCHANGED attempts
     ELSE IF classify(name) = "unexpected"
     THEN /\ pc' = [pc EXCEPT ![p] = "Failed"]
          /\ result' = [result EXCEPT ![p] =
                Failure("UnexpectedRequestError", name, doc[p])]
          /\ UNCHANGED attempts
     ELSE IF classify(name) = "terminal"
     THEN /\ pc' = [pc EXCEPT ![p] = "Failed"]
          /\ result' = [result EXCEPT ![p] = Failure(name, "none", doc[p])]
          /\ UNCHANGED attempts
     ELSE /\ attempts' = [attempts EXCEPT ![p] = @ + 1]
          /\ IF UnderBudget(attempts[p] + 1)
             THEN /\ pc' = [pc EXCEPT ![p] = "Retrying"]
                  /\ UNCHANGED result
             ELSE /\ pc' = [pc EXCEPT ![p] = "Failed"]
                  /\ result' = [result EXCEPT ![p] =
                        IF classify(name) = "rebase"
                        THEN Failure("RetryError", name, doc[p])
                        ELSE Failure(name, "none", doc[p])]
  /\ UNCHANGED <<head, persistent, otherEdits, lock, doc, computer, snapshot,
                 commit, pulled, computes, sent, cause>>

\* Submitting: the answer to the commit request arrives.
Receive(p) ==
  /\ UNCHANGED <<lib, joined, member, join>>
  /\ pc[p] = "Submitting"
  /\ chan[p].type = "res"
  /\ Settle(p, chan[p].name, chan[p].commitId)

\* Submitting: the upper bound of the wait is reached before an answer was
\* taken, whether the request or its answer is late or lost; the wait
\* ends as a transient channel failure and a late answer finds no waiter.
Timeout(p) ==
  /\ UNCHANGED <<lib, joined, member, join>>
  /\ pc[p] = "Submitting"
  /\ chan[p].type \in {"req", "res"}
  /\ Settle(p, "TimeoutError", 0)

\* Retrying after a stale-parent conflict: back to Pulling.
AfterConflictNoPull == "Computing"
AfterConflict == "Pulling"

Rebase(p) ==
  /\ UNCHANGED <<lib, joined, member, join>>
  /\ pc[p] = "Retrying"
  /\ join[p].state = "none"
  /\ classify(Last(acks[p])) = "rebase"
  /\ pc' = [pc EXCEPT ![p] = AfterConflict]
  /\ UNCHANGED <<head, persistent, otherEdits, lock, doc, computer, snapshot,
                 commit, chan, attempts, pulled, computes, sent, acks, cause,
                 result>>

\* Retrying after a transient channel failure: once the fixed delay is
\* over the same commit is emitted again, provided its parent is still the
\* head the engine knows; otherwise the attempt is rebased.
Resubmit(p) ==
  /\ UNCHANGED <<lib, joined, member, join>>
  /\ pc[p] = "Retrying"
  /\ join[p].state = "none"
  /\ classify(Last(acks[p])) = "delay"
  /\ IF commit[p].parentId = snapshot[p].commitId
     THEN /\ chan' = [chan EXCEPT ![p] = Request_("req", commit[p])]
          /\ sent' = [sent EXCEPT ![p] = Append(@,
                [commit |-> commit[p], pulls |-> Len(pulled[p]),
                 computes |-> computes[p]])]
          /\ pc' = [pc EXCEPT ![p] = "Submitting"]
     ELSE /\ pc' = [pc EXCEPT ![p] = "Pulling"]
          /\ UNCHANGED <<chan, sent>>
  /\ UNCHANGED <<head, persistent, otherEdits, lock, doc, computer, snapshot,
                 commit, attempts, pulled, computes, acks, cause, result>>

\* The states of a call in which the engine looks at the cancellation
\* signal.  While pull is awaited nothing does: pull takes the project and
\* the title only and calls getPage without options, so no signal reaches
\* the fetch and the await ends only with the fetch.
Abortable == {"Queued", "Computing", "Joining", "Submitting", "Retrying"}

\* The waiter of a request is taken out of the correlation table.
Unregistered(ch) == Silent

\* The cancellation signal fires: the call ends with an AbortError and
\* leaves no waiter behind, neither for a commit nor for a room:join.
Cancel(p) ==
  /\ pc[p] \in Abortable
  /\ pc' = [pc EXCEPT ![p] = "Cancelled"]
  /\ chan' = [chan EXCEPT ![p] = Unregistered(@)]
  /\ join' = [join EXCEPT ![p].state = "none"]
  /\ result' = [result EXCEPT ![p] = Failure("AbortError", "none", doc[p])]
  /\ UNCHANGED <<head, persistent, otherEdits, lock, doc, computer, snapshot,
                 commit, attempts, pulled, computes, sent, acks, cause,
                 joined, member, lib>>

\* The call is over: its result (or exception) goes to the caller, the
\* page is free for the next attempt and the locals of the call are gone.
Finish(p) ==
  /\ UNCHANGED <<lib, joined, member>>
  /\ join' = [join EXCEPT ![p] = NoJoin]
  /\ pc[p] \in Terminal
  /\ pc' = [pc EXCEPT ![p] = "Done"]
  /\ lock' = Release(p)
  /\ computer' = [computer EXCEPT ![p] = "deletePage"]
  /\ snapshot' = [snapshot EXCEPT ![p] = NoSnapshot]
  /\ commit' = [commit EXCEPT ![p] = NoCommit]
  /\ attempts' = [attempts EXCEPT ![p] = 0]
  /\ pulled' = [pulled EXCEPT ![p] = <<>>]
  /\ computes' = [computes EXCEPT ![p] = 0]
  /\ sent' = [sent EXCEPT ![p] = <<>>]
  /\ acks' = [acks EXCEPT ![p] = <<>>]
  /\ cause' = [cause EXCEPT ![p] = "none"]
  /\ result' = [result EXCEPT ![p] = NoResult]
  /\ UNCHANGED <<head, persistent, otherEdits, doc, chan>>

\* Another session commits to page d: it edits the page (b) or deletes it.
OtherEdit(d, b) ==
  /\ UNCHANGED <<lib, joined, member, join>>
  /\ otherEdits < MaxOtherEdits
  /\ otherEdits' = otherEdits + 1
  /\ head' = [head EXCEPT ![d] = @ + 1]
  /\ persistent' = [persistent EXCEPT ![d] = b]
  /\ UNCHANGED <<lock, pc, doc, computer, snapshot, commit, chan, attempts,
                 pulled, computes, sent, acks, cause, result>>

Next ==
  \/ \E p \in Callers, d \in Docs, c \in Computers : Request(p, d, c)
  \/ \E p \in Callers : Acquire(p)
  \/ \E p \in Callers, o \in FetchOutcomes : Pull(p, o)
  \/ \E p \in Callers : Compute(p)
  \/ \E p \in Callers, ok \in BOOLEAN : ServerJoin(p, ok)
  \/ \E p \in Callers : JoinDone(p)
  \/ \E p \in Callers : Rejoin(p)
  \/ \E p \in Callers, taken \in BOOLEAN : ServerCommit(p, taken)
  \/ \E p \in Callers, n \in ServerErrorNames : ServerError(p, n)
  \/ \E p \in Callers : Receive(p)
  \/ \E p \in Callers : Timeout(p)
  \/ \E p \in Callers : Rebase(p)
  \/ \E p \in Callers : Resubmit(p)
  \/ \E p \in Callers : Cancel(p)
  \/ \E p \in Callers : Finish(p)
  \/ \E d \in Docs, b \in BOOLEAN : OtherEdit(d, b)

Spec == Init /\ [][Next]_vars

\* ------------------------------------------ functions applied on their own
\* The functions of the library that take no part in the state of the
\* engine are applied to inputs drawn from bounded sets.
MaxCommitId == 3
Pages == [commitId : 1..MaxCommitId, id : Docs, persistent : BOOLEAN]

\* Besides the outcomes the engine meets: a DOMException that is not an
\* abort, and an Error that is named AbortError without being a
\* DOMException.
AllFetchOutcomes ==
  FetchOutcomes \cup
  { Throws(Exception("DOMException", "TimeoutError")),
    Throws(Exception("Error", "AbortError")) }

ErrorNames ==
  { "SocketIOError", "DuplicateTitleError", "NotFastForwardError",
    "TimeoutError", "UnexpectedRequestError", "SocketIOServerDisconnectError",
    "BadRequestError", "Error" }

Input(fn, o, page, name) ==
  [fn |-> fn, outcome |-> o, page |-> page, name |-> name, out |-> NoOutput,
   done |-> FALSE]

FnInputs ==
  { Input("robustFetch", o, NoPage, "none") : o \in AllFetchOutcomes }
  \cup { Input("getPage", o, pg, "none") : o \in AllFetchOutcomes, pg \in Pages }
  \cup { Input("isPageCommitError", Throws(NoException), NoPage, n) : n \in ErrorNames }

engine == <<head, persistent, otherEdits, lock, pc, doc, computer, snapshot,
            commit, chan, attempts, pulled, computes, sent, acks, cause, result,
            joined, member, join>>

Output(v) == [io EXCEPT !.out = v, !.done = TRUE]

ApplyRobustFetch ==
  /\ io.fn = "robustFetch" /\ ~io.done
  /\ io' = Output(robustFetch(io.outcome))
  /\ UNCHANGED <<engine, socket, gcs, mouse>>

ApplyGetPage ==
  /\ io.fn = "getPage" /\ ~io.done
  /\ io' = Output(getPage(io.outcome, io.page))
  /\ UNCHANGED <<engine, socket, gcs, mouse>>

ApplyIsPageCommitError ==
  /\ io.fn = "isPageCommitError" /\ ~io.done
  /\ io' = Output([tag |-> "Bool", val |-> isPageCommitError(io.name)])
  /\ UNCHANGED <<engine, socket, gcs, mouse>>

\* ------------------------------------------------------------------ listen
\* A socket with the one listener listen(socket, event, listener, options)
\* is about.  `bound` tells whether the socket's on and once work when they
\* are called without a receiver: listen takes the method out of the socket
\* with a conditional expression and calls the bare function, so the method
\* runs with `this` undefined; a method that reads its registry from `this`
\* (a prototype method) throws a TypeError there, a bound one registers.
MaxEvents == 2
Sockets ==
  [fn : {"listen"}, bound : BOOLEAN, once : BOOLEAN,
   signal : {"none", "live", "aborted"},
   called : {FALSE}, abortedAtCall : {FALSE}, thrown : {FALSE},
   registered : {"none"}, onAbort : {FALSE},
   delivered : {0}, due : {0}, invoked : {0}, late : {0}]

\* socket.on / socket.once called as a bare function.
Registers(sock) == sock.bound

\* listen(socket, event, listener, options)
listen(sock) ==
  IF sock.signal = "aborted"
  THEN [sock EXCEPT !.called = TRUE, !.abortedAtCall = TRUE]
  ELSE IF ~Registers(sock)
  THEN [sock EXCEPT !.called = TRUE, !.thrown = TRUE]
  ELSE [sock EXCEPT !.called = TRUE,
                    !.registered = IF sock.once THEN "once" ELSE "on",
                    !.onAbort = (sock.signal # "none")]

Listen ==
  /\ socket.fn = "listen" /\ ~socket.called
  /\ socket' = listen(socket)
  /\ UNCHANGED <<engine, io, gcs, mouse>>

\* The socket receives an occurrence of the event: a registered listener is
\* invoked, and one registered with once is taken out first.  `due` counts
\* the occurrences after a call that did not find the signal aborted and
\* before the signal aborts, `late` the invocations after the abort.
Deliver ==
  /\ socket.fn = "listen" /\ socket.delivered < MaxEvents
  /\ socket' =
       [socket EXCEPT
          !.delivered = @ + 1,
          !.due = IF socket.called /\ ~socket.abortedAtCall /\
                     socket.signal # "aborted" THEN @ + 1 ELSE @,
          !.invoked = IF socket.registered # "none" THEN @ + 1 ELSE @,
          !.late = IF socket.registered # "none" /\ socket.signal = "aborted"
                   THEN @ + 1 ELSE @,
          !.registered = IF @ = "once" THEN "none" ELSE @]
  /\ UNCHANGED <<engine, io, gcs, mouse>>

\* The signal aborts: the handler listen attached calls socket.off.
Abort ==
  /\ socket.fn = "listen" /\ socket.signal = "live"
  /\ socket' =
       [socket EXCEPT
          !.signal = "aborted",
          !.registered = IF socket.onAbort THEN "none" ELSE @,
          !.onAbort = FALSE]
  /\ UNCHANGED <<engine, io, gcs, mouse>>

\* --------------------------------------------------------- lines of a page
\* The page is the sequence of its line ids; index 0 is the first line.  A
\* value is what getLineNo and its kin accept: undefined, a number, a
\* string (a line id, with or without the "L" of the DOM id, or the empty
\* string), a line element, an element inside a line, or an element that
\* is in no line.
MaxLines == 2
Ids == {"a", "b", "c"}
RECURSIVE Distinct(_)
Distinct(q) ==
  IF Len(q) <= 1 THEN TRUE
  ELSE Head(q) \notin Range(Tail(q)) /\ Distinct(Tail(q))
LineLists ==
  { q \in UNION { [1..n -> Ids] : n \in 0..MaxLines } : Distinct(q) }

Value(kind, n, id, prefixed) ==
  [kind |-> kind, n |-> n, id |-> id, prefixed |-> prefixed]
Values ==
  { Value("undefined", 0, "", FALSE), Value("orphanDOM", 0, "", FALSE),
    Value("string", 0, "", FALSE) }
  \cup { Value("number", n, "", FALSE) : n \in (0 - 1)..MaxLines }
  \cup { Value("string", 0, id, b) : id \in Ids, b \in BOOLEAN }
  \cup { Value(k, 0, id, TRUE) : k \in {"lineDOM", "childDOM"}, id \in Ids }

Undefined == [tag |-> "Undefined", num |-> 0, id |-> ""]
Num(n) == [tag |-> "Number", num |-> n, id |-> ""]
TheLine(id) == [tag |-> "Line", num |-> 0, id |-> id]
Str(id) == [tag |-> "String", num |-> 0, id |-> id]

\* array[i]: the element, or undefined outside the array.
At(lines, i) ==
  IF i >= 0 /\ i < Len(lines) THEN TheLine(lines[i + 1]) ELSE Undefined

\* array.findIndex(line => line.id === id): -1 when there is none.
findIndex(lines, id) ==
  IF \E i \in 1..Len(lines) : lines[i] = id
  THEN (CHOOSE i \in 1..Len(lines) : lines[i] = id) - 1
  ELSE 0 - 1

getLineId(lines, value) ==
  CASE value.kind = "undefined" -> Undefined
    [] value.kind = "number" ->
         IF At(lines, value.n).tag = "Line" THEN Str(At(lines, value.n).id)
         ELSE Undefined
    [] value.kind = "string" -> Str(value.id)
    [] value.kind \in {"lineDOM", "childDOM"} -> Str(value.id)
    [] OTHER -> Undefined

\* A string is truthy unless it is empty; undefined is not.
Truthy(v) == v.tag = "String" /\ v.id # ""

getLineNo(lines, value) ==
  IF value.kind = "undefined" THEN Undefined
  ELSE IF value.kind = "number" THEN Num(value.n)
  ELSE LET id == getLineId(lines, value)
       IN IF Truthy(id) THEN Num(findIndex(lines, id.id)) ELSE Num(0 - 1)

\* getLine applied to a number, the only way getNextLine and getPrevLine
\* use it.
getLine(lines, n) == At(lines, n)

getNextLine(lines, value) ==
  LET index == getLineNo(lines, value)
  IN IF index.tag = "Undefined" THEN Undefined
     ELSE getLine(lines, index.num + 1)

getPrevLine(lines, value) ==
  LET index == getLineNo(lines, value)
  IN IF index.tag = "Undefined" THEN Undefined
     ELSE getLine(lines, index.num - 1)

LineInputs ==
  [fn : {"getLineNo", "getNextLine", "getPrevLine"}, lines : LineLists,
   value : Values, out : {Undefined}, done : {FALSE}]

ApplyGetLineNo ==
  /\ io.fn = "getLineNo" /\ ~io.done
  /\ io' = Output(getLineNo(io.lines, io.value))
  /\ UNCHANGED <<engine, socket, gcs, mouse>>

ApplyGetNextLine ==
  /\ io.fn = "getNextLine" /\ ~io.done
  /\ io' = Output(getNextLine(io.lines, io.value))
  /\ UNCHANGED <<engine, socket, gcs, mouse>>

ApplyGetPrevLine ==
  /\ io.fn = "getPrevLine" /\ ~io.done
  /\ io' = Output(getPrevLine(io.lines, io.value))
  /\ UNCHANGED <<engine, socket, gcs, mouse>>

\* ------------------------------------------------- browser/dom/node.ts: characters
MaxText == 3

Letters == {"x", "y"}

\* The text of a line.
Texts == UNION {[1..n -> Letters] : n \in 0..MaxText}

\* value.getElementsByClassName("char-index") of an element inside a line: the
\* character elements it contains, in document order, each named by the index of
\* its c-{index} class.  An element covers consecutive characters of its line.
CharElements(text) ==
  {[i \in 1..(hi - lo) |-> lo + i - 1] : lo \in 0..Len(text), hi \in 0..Len(text)}

\* function* getChars(value): chars.length times, yield chars[0].
getChars(chars) == [i \in 1..Len(chars) |-> chars[1]]

\* getIndex(dom): the number of the c-{index} class.
getIndex(dom) == dom

\* Math.min(...chars) and Math.max(...chars) of a non-empty list.
MathMin(s) == CHOOSE m \in Range(s) : \A k \in Range(s) : m <= k

MathMax(s) == CHOOSE m \in Range(s) : \A k \in Range(s) : m >= k

\* String.prototype.slice(from, to) with both ends within the string.
slice(text, from, to) == SubSeq(text, from + 1, to)

\* getText(value) of an element inside a line (the last branch): without
\* characters Math.min() is Infinity and Math.max() is -Infinity, and the slice is
\* the empty string.
getText(text, elements) ==
  LET chars == [i \in DOMAIN getChars(elements) |-> getIndex(getChars(elements)[i])]
  IN IF chars = <<>> THEN <<>>
     ELSE slice(text, MathMin(chars), MathMax(chars) + 1)

CharInputs ==
  {c \in [fn : {"getChars", "getText"}, text : Texts,
          chars : UNION {CharElements(t) : t \in Texts},
          out : {Undefined}, done : {FALSE}] :
     c.chars \in CharElements(c.text)}

ApplyGetChars ==
  /\ io.fn = "getChars" /\ ~io.done
  /\ io' = Output(getChars(io.chars))
  /\ UNCHANGED <<engine, socket, gcs, mouse>>

ApplyGetText ==
  /\ io.fn = "getText" /\ ~io.done
  /\ io' = Output(getText(io.text, io.chars))
  /\ UNCHANGED <<engine, socket, gcs, mouse>>

\* ------------------------------------------------------- browser/dom/cache.ts
MaxCaches == 2

\* new Date(): getFullYear(), getMonth() (0-based) and getDate().
Dates == [year : {2023, 2024}, month : {1, 9}, date : {3, 20}]

\* a is an earlier day than b.
Earlier(a, b) ==
  \/ a.year < b.year
  \/ a.year = b.year /\ a.month < b.month
  \/ a.year = b.year /\ a.month = b.month /\ a.date < b.date

\* Strings are sequences of UTF-16 code units: "0" is 48, "-" is 45.
RECURSIVE toString(_)
toString(n) == IF n < 10 THEN <<48 + n>> ELSE toString(n \div 10) \o <<48 + (n % 10)>>

\* `${n}`.padStart(2, "0")
padStart(s) == IF Len(s) < 2 THEN <<48>> \o s ELSE s

\* `api-${getFullYear()}-${month + 1, padded}-${getDate(), padded}`
generateCacheName(date) ==
  <<97, 112, 105, 45>> \o toString(date.year) \o <<45>>
    \o padStart(toString(date.month + 1)) \o <<45>> \o padStart(toString(date.date))

\* "prefetch": the temporary cache the service worker keeps in the same storage.
prefetchName == <<112, 114, 101, 102, 101, 116, 99, 104>>

\* The order of Array.prototype.sort() without a comparator: by code units, a
\* proper prefix first.
Precedes(a, b) ==
  \E i \in 1..(Len(a) + 1) :
    /\ \A k \in 1..(i - 1) : k <= Len(b) /\ a[k] = b[k]
    /\ \/ i = Len(a) + 1 /\ Len(b) > Len(a)
       \/ i <= Len(a) /\ i <= Len(b) /\ a[i] < b[i]

\* A cache of the storage: its name, the day its content was stored, and whether
\* cache.match(request) finds a response in it.
Cache(name, at, hit) == [name |-> name, at |-> at, hit |-> hit]

\* The caches saveApiCache has opened: one for each day a response was saved.
DatedStorages ==
  UNION {{{Cache(generateCacheName(d), d, h[d]) : d \in days} : h \in [days -> BOOLEAN]} :
           days \in {ds \in SUBSET Dates : Cardinality(ds) <= MaxCaches}}

PrefetchCaches == {Cache(prefetchName, d, h) : d \in Dates, h \in BOOLEAN}

\* caches.keys(): the dated caches, with or without the prefetch cache.
Storages ==
  {dated \cup pre : dated \in DatedStorages,
                    pre \in {{}} \cup {{c} : c \in PrefetchCaches}}

\* for (const date of cacheNames.sort().reverse()): the caches are opened from the
\* last name of the sorted list to the first, and the first response found is
\* returned; without one the function ends without a value.
RECURSIVE findLatestCache(_)
findLatestCache(storage) ==
  IF storage = {} THEN Undefined
  ELSE LET cache == CHOOSE c \in storage :
                      \A d \in storage \ {c} : Precedes(d.name, c.name)
       IN IF cache.hit THEN cache ELSE findLatestCache(storage \ {cache})

CacheInputs == [fn : {"findLatestCache"}, storage : Storages, out : {Undefined}, done : {FALSE}]

ApplyFindLatestCache ==
  /\ io.fn = "findLatestCache" /\ ~io.done
  /\ io' = Output(findLatestCache(io.storage))
  /\ UNCHANGED <<engine, socket, gcs, mouse>>

\* -------------------------------------------------- rest/auth.ts: getCSRFToken
\* init.csrf and globalThis._csrf: undefined or a string, which may be empty.
InitTokens == {Undefined, Str(""), Str("A")}

GlobalTokens == {Undefined, Str(""), Str("G")}

\* user.csrfToken of the profile the server answers with.
profileToken == "P"

\* a ?? b
Coalesce(a, b) == IF a = Undefined THEN b ELSE a

\* getProfile: the fetch error as it is; the JSON of an OK response; HTTPError
\* for any other response.
getProfile(o) ==
  LET resResult == robustFetch(o)
  IN IF resResult.tag # "Ok" THEN resResult
     ELSE IF responseIntoResult(resResult.val).tag = "Ok"
          THEN Ok([csrfToken |-> profileToken])
          ELSE responseIntoResult(resResult.val)

\* mapForResult(result, user => user.csrfToken)
mapToken(r) == IF r.tag = "Ok" THEN Ok(r.val.csrfToken) ELSE r

\* getCSRFToken: the result, and whether the profile was requested on the way.
getCSRFToken(init, global, o) ==
  LET csrf == Coalesce(init, global)
  IN IF Truthy(csrf) THEN [result |-> Ok(csrf.id), fetched |-> FALSE]
     ELSE [result |-> mapToken(getProfile(o)), fetched |-> TRUE]

TokenInputs ==
  [fn : {"getCSRFToken"}, init : InitTokens, global : GlobalTokens,
   outcome : FetchOutcomes, out : {Undefined}, done : {FALSE}]

ApplyGetCSRFToken ==
  /\ io.fn = "getCSRFToken" /\ ~io.done
  /\ io' = Output(getCSRFToken(io.init, io.global, io.outcome))
  /\ UNCHANGED <<engine, socket, gcs, mouse>>

\* ----------------------------------------------------- text.ts: getIndentCount
\* The texts of Deno.test("getIndentCount()"), as UTF-16 code units: a space is
\* 32, a tab is 9 and a full-width space is 12288.
\* 'sample text '
plainText == <<115, 97, 109, 112, 108, 101, 32, 116, 101, 120, 116, 32>>

\* '  sample text '
spacedText == <<32, 32, 115, 97, 109, 112, 108, 101, 32, 116, 101, 120, 116, 32>>

\* '<U+3000><U+3000> sample text'
fullWidthText == <<12288, 12288, 32, 115, 97, 109, 112, 108, 101, 32, 116, 101, 120, 116>>

\* '\t \t<U+3000><U+3000>sample text'
mixedText == <<9, 32, 9, 12288, 12288, 115, 97, 109, 112, 108, 101, 32, 116, 101, 120, 116>>

TestedTexts == {plainText, spacedText, fullWidthText, mixedText}

\* A count of every whitespace character of the text, wherever it stands.
RECURSIVE getIndentCountAnywhere(_)
getIndentCountAnywhere(text) ==
  IF text = <<>> THEN 0
  ELSE (IF Head(text) \in {32, 9, 12288} THEN 1 ELSE 0) + getIndentCountAnywhere(Tail(text))

\* Text.getIndentCount on the texts its test calls it with: the values the test
\* asserts.
getIndentCount(text) ==
  CASE text = plainText -> 0
    [] text = spacedText -> 2
    [] text = fullWidthText -> 3
    [] text = mixedText -> 5

IndentInputs == [fn : {"getIndentCount"}, text : TestedTexts, out : {Undefined}, done : {FALSE}]

ApplyGetIndentCount ==
  /\ io.fn = "getIndentCount" /\ ~io.done
  /\ io' = Output(Num(getIndentCount(io.text)))
  /\ UNCHANGED <<engine, socket, gcs, mouse>>

\* ------------------------------------------------------ rest/uploadToGCS.ts
\* What the server may answer to one of the three requests: body says what the
\* JSON of an OK answer to upload-request holds, xml whether an error answer has an
\* XML content type.
GCSResponse(ok, status, body, xml) == [ok |-> ok, status |-> status, body |-> body, xml |-> xml]

GCSResponses ==
  { GCSResponse(TRUE, 200, "GCSFile", FALSE), GCSResponse(TRUE, 200, "UploadRequest", FALSE),
    GCSResponse(FALSE, 402, "none", FALSE), GCSResponse(FALSE, 404, "none", FALSE),
    GCSResponse(FALSE, 403, "none", TRUE), GCSResponse(FALSE, 500, "none", FALSE) }

GCSOutcomes ==
  { Resolves(r) : r \in GCSResponses }
  \cup { Throws(Exception("TypeError", "TypeError")),
         Throws(Exception("DOMException", "AbortError")),
         Throws(Exception("RangeError", "RangeError")) }

\* orElseAsyncForResult(toResultOkFromMaybe(csrf), () => getCSRFToken(init)): the
\* token of the options, or what getCSRFToken returns.
CsrfResults == {Ok("token"), Err("NetworkError"), Err("HTTPError")}

\* uploadRequest: the csrf error before any request; the fetch error; 402 is
\* FileCapacityError, another error status HTTPError; else the JSON, which is the
\* stored file (it has embedUrl) or the signed URL to upload to.
uploadRequest(csrfResult, o) ==
  IF csrfResult.tag # "Ok" THEN csrfResult
  ELSE LET res == robustFetch(o)
       IN IF res.tag # "Ok" THEN res
          ELSE IF responseIntoResult(res.val).tag # "Ok"
               THEN (IF res.val.status = 402 THEN Err("FileCapacityError") ELSE Err("HTTPError"))
               ELSE Ok(res.val.body)

\* upload: the fetch error; an error answer with an XML content type is GCSError,
\* another one HTTPError; else undefined.
upload(o) ==
  LET res == robustFetch(o)
  IN IF res.tag # "Ok" THEN res
     ELSE IF responseIntoResult(res.val).tag # "Ok"
          THEN (IF res.val.xml THEN Err("GCSError") ELSE Err("HTTPError"))
          ELSE Ok("undefined")

\* verify: as uploadRequest, with 404 as NotFoundError and the file as the JSON.
verify(csrfResult, o) ==
  IF csrfResult.tag # "Ok" THEN csrfResult
  ELSE LET res == robustFetch(o)
       IN IF res.tag # "Ok" THEN res
          ELSE IF responseIntoResult(res.val).tag # "Ok"
               THEN (IF res.val.status = 404 THEN Err("NotFoundError") ELSE Err("HTTPError"))
               ELSE Ok("GCSFile")

\* uploadToGCS goes on to upload whatever uploadRequest returned.
uploadsAlways(res) == TRUE

\* uploadToGCS after uploadRequest: `if (isErr(res)) return res;` and
\* `if ("embedUrl" in fileOrRequest) return createOk(fileOrRequest);`
uploads(res) == res.tag = "Ok" /\ res.val = "UploadRequest"

NotRun == [tag |-> "None", val |-> "none"]

StartGCS ==
  [fn |-> "uploadToGCS", pc |-> "uploadRequest", issued |-> <<>>, request |-> NotRun,
   upload |-> NotRun, verify |-> NotRun, result |-> NotRun]

\* const res = await uploadRequest(file, projectId, md5Hash, options);
UploadRequest ==
  /\ gcs.fn = "uploadToGCS" /\ gcs.pc = "uploadRequest"
  /\ \E c \in CsrfResults, o \in GCSOutcomes :
       LET res == uploadRequest(c, o)
       IN gcs' = [gcs EXCEPT
                    !.issued = IF c.tag = "Ok" THEN Append(@, "upload-request") ELSE @,
                    !.request = res,
                    !.pc = IF uploads(res) THEN "upload" ELSE "done",
                    !.result = IF uploads(res) THEN @ ELSE res]
  /\ UNCHANGED <<engine, io, socket, mouse>>

\* const result = await upload(fileOrRequest.signedUrl, file, options);
Upload ==
  /\ gcs.fn = "uploadToGCS" /\ gcs.pc = "upload"
  /\ \E o \in GCSOutcomes :
       LET res == upload(o)
       IN gcs' = [gcs EXCEPT
                    !.issued = Append(@, "upload"),
                    !.upload = res,
                    !.pc = IF res.tag = "Ok" THEN "verify" ELSE "done",
                    !.result = IF res.tag = "Ok" THEN @ ELSE res]
  /\ UNCHANGED <<engine, io, socket, mouse>>

\* return verify(projectId, fileOrRequest.fileId, md5Hash, options);
Verify ==
  /\ gcs.fn = "uploadToGCS" /\ gcs.pc = "verify"
  /\ \E c \in CsrfResults, o \in GCSOutcomes :
       LET res == verify(c, o)
       IN gcs' = [gcs EXCEPT
                    !.issued = IF c.tag = "Ok" THEN Append(@, "verify") ELSE @,
                    !.verify = res,
                    !.pc = "done",
                    !.result = res]
  /\ UNCHANGED <<engine, io, socket, mouse>>

\* ------------------------------------------------- browser/dom/click.ts
MaxHolding == 2

\* How many milliseconds after its time a timer fires at the latest.
MaxLate == 2

\* `options.holding ?? 1000`
defaultHolding == 1000

\* `await delay(10)` after the last event
settling == 10

\* options.holding: undefined or a number of milliseconds.
Holdings == {Undefined} \cup {Num(h) : h \in 0..MaxHolding}

\* A delay that is over at once.
delayNone(now, ms) == now

\* delay(ms): the time from which the promise may resolve.
delay(now, ms) == now + ms

Gesture(fn, holding) ==
  [fn |-> fn, holding |-> holding, pc |-> "start", events |-> <<>>, clock |-> 0,
   downAt |-> 0, wake |-> 0, resolved |-> FALSE]

Gestures == {Gesture("click", Undefined)} \cup {Gesture("holdDown", h) : h \in Holdings}

\* click: mousedown, mouseup and click are dispatched, then delay(10) is awaited.
Click ==
  /\ mouse.fn = "click" /\ mouse.pc = "start"
  /\ mouse' = [mouse EXCEPT !.events = @ \o <<"mousedown", "mouseup", "click">>,
                            !.downAt = mouse.clock,
                            !.wake = delay(mouse.clock, settling),
                            !.pc = "settling"]
  /\ UNCHANGED <<engine, io, socket, gcs>>

\* holdDown: touchstart and mousedown are dispatched, then
\* delay(options.holding ?? 1000) is awaited.
HoldDown ==
  /\ mouse.fn = "holdDown" /\ mouse.pc = "start"
  /\ mouse' = [mouse EXCEPT !.events = @ \o <<"touchstart", "mousedown">>,
                            !.downAt = mouse.clock,
                            !.wake = delay(mouse.clock,
                                           Coalesce(mouse.holding, Num(defaultHolding)).num),
                            !.pc = "holding"]
  /\ UNCHANGED <<engine, io, socket, gcs>>

\* holdDown after the holding delay: mouseup, touchend and click are dispatched,
\* then delay(10) is awaited.
MouseUp ==
  /\ mouse.fn = "holdDown" /\ mouse.pc = "holding"
  /\ mouse.clock >= mouse.wake
  /\ mouse' = [mouse EXCEPT !.events = @ \o <<"mouseup", "touchend", "click">>,
                            !.wake = delay(mouse.clock, settling),
                            !.pc = "settling"]
  /\ UNCHANGED <<engine, io, socket, gcs>>

\* The last delay is over: the promise of click or holdDown resolves.
Settled ==
  /\ mouse.fn \in {"click", "holdDown"} /\ mouse.pc = "settling"
  /\ mouse.clock >= mouse.wake
  /\ mouse' = [mouse EXCEPT !.resolved = TRUE, !.pc = "done"]
  /\ UNCHANGED <<engine, io, socket, gcs>>

\* A millisecond passes while a delay is awaited.
Tick ==
  /\ mouse.fn \in {"click", "holdDown"} /\ mouse.pc \in {"holding", "settling"}
  /\ mouse.clock < mouse.wake + MaxLate
  /\ mouse' = [mouse EXCEPT !.clock = @ + 1]
  /\ UNCHANGED <<engine, io, socket, gcs>>

FnInit ==
  /\ Boot
  /\ \/ io \in FnInputs /\ socket = NoSocket /\ gcs = NoGCS /\ mouse = NoMouse
     \/ io = NoIO /\ socket \in Sockets /\ gcs = NoGCS /\ mouse = NoMouse
     \/ io \in LineInputs /\ socket = NoSocket /\ gcs = NoGCS /\ mouse = NoMouse
     \/ io \in CharInputs /\ socket = NoSocket /\ gcs = NoGCS /\ mouse = NoMouse
     \/ io \in CacheInputs /\ socket = NoSocket /\ gcs = NoGCS /\ mouse = NoMouse
     \/ io \in TokenInputs /\ socket = NoSocket /\ gcs = NoGCS /\ mouse = NoMouse
     \/ io \in IndentInputs /\ socket = NoSocket /\ gcs = NoGCS /\ mouse = NoMouse
     \/ io = NoIO /\ socket = NoSocket /\ gcs = StartGCS /\ mouse = NoMouse
     \/ io = NoIO /\ socket = NoSocket /\ gcs = NoGCS /\ mouse \in Gestures

FnNext ==
  \/ ApplyRobustFetch
  \/ ApplyGetPage
  \/ ApplyIsPageCommitError
  \/ Listen
  \/ Deliver
  \/ Abort
  \/ ApplyGetLineNo
  \/ ApplyGetNextLine
  \/ ApplyGetPrevLine
  \/ ApplyGetChars
  \/ ApplyGetText
  \/ ApplyFindLatestCache
  \/ ApplyGetCSRFToken
  \/ ApplyGetIndentCount
  \/ UploadRequest
  \/ Upload
  \/ Verify
  \/ Click
  \/ HoldDown
  \/ MouseUp
  \/ Settled
  \/ Tick

FnSpec == FnInit /\ [][FnNext]_vars

\* ------------------------------------------------------------ properties
InFlight(p) == chan[p].type # "none"
PastComputing(p) == pc[p] \in {"Submitting", "Retrying", "Succeeded", "Failed"} \/
                    (pc[p] = "Thrown" /\ cause[p] = "none")
\* The commits emitted from the head pulled last.
SentFromHead(p) == { i \in 1..Len(sent[p]) : sent[p][i].pulls = Len(pulled[p]) }

\* C1: whatever the interleaving of the callers' requests, a page never has
\* two commits in flight at once (in particular never two with the same
\* parentId); a second request waits in the queue meanwhile.
C1_OneCommitInFlight ==
  \A p, q \in Callers :
    (p # q /\ InFlight(p) /\ InFlight(q)) =>
      /\ chan[p].commit.pageId # chan[q].commit.pageId
      /\ ~(doc[p] = doc[q] /\ chan[p].commit.parentId = chan[q].commit.parentId)

C1_Witness ==
  \E p, q \in Callers :
    /\ p # q /\ chan[p].type = "req"
    /\ pc[q] = "Queued" /\ doc[q] = doc[p]

\* C2: a submit answered NotFastForwardError is followed, before the next
\* submit, by exactly one more pull and exactly one more run of the change
\* computer, and the next commit's parent is the commit id of the new
\* snapshot and not that of the old one; in particular so when the first
\* submit is rejected and the second accepted.
C2_RebaseOnConflict ==
  \A p \in Callers :
    /\ \A i \in 1..Len(acks[p]) :
         (acks[p][i] = "NotFastForwardError" /\ i < Len(sent[p])) =>
           /\ sent[p][i + 1].pulls = sent[p][i].pulls + 1
           /\ sent[p][i + 1].computes = sent[p][i].computes + 1
           /\ sent[p][i + 1].commit.parentId = pulled[p][sent[p][i].pulls + 1]
           /\ sent[p][i + 1].commit.parentId # pulled[p][sent[p][i].pulls]
    /\ acks[p] = <<"NotFastForwardError", "ok">> =>
           /\ Len(pulled[p]) = 2 /\ computes[p] = 2 /\ Len(sent[p]) = 2
           /\ sent[p][2].commit.parentId = pulled[p][2]
           /\ sent[p][2].commit.parentId # pulled[p][1]
           /\ pc[p] = "Succeeded"

C2_Witness ==
  \E p \in Callers : acks[p] = <<"NotFastForwardError", "ok">>

\* How far a call is from its end: the retries the budget still allows,
\* then the position within the attempt.
Rank(p) ==
  CASE pc[p] = "Idle" -> 10
    [] pc[p] = "Queued" -> 9
    [] pc[p] = "Retrying" -> 8
    [] pc[p] = "Pulling" -> 7
    [] pc[p] = "Computing" -> 6
    [] pc[p] = "Joining" -> IF join[p].state = "req" THEN 5 ELSE 4
    [] pc[p] = "Submitting" -> IF chan[p].type = "req" THEN 3 ELSE 2
    [] OTHER -> 0
Measure(p) ==
  IF pc[p] = "Done" THEN 0
  ELSE IF pc[p] \in Terminal THEN 1
  ELSE 2 + 11 * (Budget + 1 - attempts[p]) + Rank(p)

C3_Budget ==
  \A p \in Callers :
    /\ Measure(p) >= 0
    /\ Len(sent[p]) <= Budget + 1
    /\ Len(pulled[p]) <= Budget + 1
    /\ computes[p] <= Budget + 1
    /\ attempts[p] <= Budget + 1
    /\ (Len(acks[p]) = Budget + 1 /\
        \A i \in 1..Len(acks[p]) : acks[p][i] = "NotFastForwardError") =>
          /\ pc[p] = "Failed"
          /\ result[p] = Failure("RetryError", "NotFastForwardError", doc[p])
    /\ result[p].error.name = "RetryError" =>
          /\ pc[p] = "Failed" /\ result[p].tag = "Err"
          /\ attempts[p] = Budget + 1
          /\ Last(acks[p]) = "NotFastForwardError"
          /\ result[p].error.message = "NotFastForwardError"

C3_Progress ==
  \A p \in Callers :
    (pc'[p] # pc[p] \/ chan'[p] # chan[p] \/ join'[p] # join[p]) =>
      Measure(p)' < Measure(p)

\* C3: the engine never emits more than Budget+1 commits nor pulls or
\* computes more often than that; Budget+1 conflicts in a row end the call
\* with the RetryError, which wraps the conflict, is another kind than the
\* conflict, and is returned only when the last answer was a conflict and
\* the budget is spent; every step of a call and every answer to it brings
\* the call closer to its end, so it cannot loop.
C3_BoundedRetries == []C3_Budget /\ [][C3_Progress]_vars

C3_Witness ==
  \E p \in Callers :
    /\ result[p].error.name = "RetryError"
    /\ \A i \in 1..Len(acks[p]) : acks[p][i] = "NotFastForwardError"

\* C4: every commit that is emitted, and so the one that is accepted,
\* names as parent the commit id the REST API served to the latest pull of
\* the call; after a conflict the old parent is not used again.
C4_ParentIsLatestPull ==
  \A p \in Callers :
    /\ \A i \in 1..Len(sent[p]) :
         /\ sent[p][i].pulls >= 1
         /\ sent[p][i].commit.parentId = pulled[p][sent[p][i].pulls]
    /\ InFlight(p) =>
         /\ chan[p].commit.parentId = Last(pulled[p])
         /\ chan[p].commit = Last(sent[p]).commit
    /\ (acks[p] # <<>> /\ Last(acks[p]) = "ok") =>
         /\ pc[p] = "Succeeded"
         /\ Last(sent[p]).pulls = Len(pulled[p])
         /\ Last(sent[p]).commit.parentId = Last(pulled[p])
         /\ result[p].commitId = Last(pulled[p]) + 1
    /\ \A i \in 1..Len(acks[p]) :
         (acks[p][i] = "NotFastForwardError" /\ i < Len(sent[p])) =>
           sent[p][i + 1].commit.parentId # sent[p][i].commit.parentId

C4_Witness ==
  \E p \in Callers :
    /\ pc[p] = "Succeeded" /\ Len(sent[p]) >= 2 /\ Len(pulled[p]) >= 2
    /\ Last(acks[p]) = "ok"

C6_DuplicateTitleTerminal ==
  \A p \in Callers :
    /\ \A i \in 1..Len(acks[p]) :
         acks[p][i] = "DuplicateTitleError" =>
           /\ i = Len(acks[p]) /\ Len(sent[p]) = i
           /\ ~InFlight(p)
           /\ pc[p] = "Failed"
           /\ result[p] = Failure("DuplicateTitleError", "none", doc[p])
           /\ Len(pulled[p]) = sent[p][i].pulls
           /\ computes[p] = sent[p][i].computes
           /\ attempts[p] = i - 1 + join[p].failures
    /\ acks[p] = <<"DuplicateTitleError">> =>
           /\ Len(pulled[p]) = 1 /\ computes[p] = 1 /\ Len(sent[p]) = 1
           /\ attempts[p] = join[p].failures

C6_Witness ==
  \E p \in Callers : acks[p] = <<"DuplicateTitleError">> /\ pc[p] = "Failed"

OnlyTransient(q) == \A i \in 1..Len(q) : q[i] = "SocketIOError"

\* C7: SocketIOError answers within the budget are retried from the
\* Retrying state with the very same commit, without another pull or
\* another run of the change computer, and when the next answer is a
\* success the call succeeds with one pull and one computation in all.
C7_TransientRetryNoRebase ==
  \A p \in Callers :
    /\ \A i \in 1..Len(acks[p]) :
         (acks[p][i] = "SocketIOError" /\ i < Len(sent[p])) =>
           sent[p][i + 1] = sent[p][i]
    /\ (acks[p] # <<>> /\ OnlyTransient(acks[p]) /\
        Len(acks[p]) + join[p].failures <= Budget) =>
         /\ pc[p] \in {"Retrying", "Submitting", "Cancelled"}
         /\ attempts[p] = Len(acks[p]) + join[p].failures
         /\ Len(pulled[p]) = 1 /\ computes[p] = 1
    /\ (acks[p] # <<>> /\ Last(acks[p]) = "ok" /\
        OnlyTransient(SubSeq(acks[p], 1, Len(acks[p]) - 1))) =>
         /\ pc[p] = "Succeeded" /\ result[p].tag = "Ok"
         /\ Len(pulled[p]) = 1 /\ computes[p] = 1
         /\ Len(sent[p]) = Len(acks[p])
         /\ \A i \in 1..Len(sent[p]) :
              /\ sent[p][i].commit = sent[p][1].commit
              /\ sent[p][i].commit.parentId = pulled[p][1]

C7_Witness ==
  \E p \in Callers :
    /\ Len(acks[p]) >= 2 /\ Last(acks[p]) = "ok"
    /\ OnlyTransient(SubSeq(acks[p], 1, Len(acks[p]) - 1))
    /\ pc[p] = "Succeeded"

Exclusive == {"pin", "deleted"}
Homogeneous(ch) ==
  \/ \A i \in 1..Len(ch) : ch[i] \notin Exclusive
  \/ Len(ch) = 1

\* C8: a change list that has a pin or a page deletion next to another
\* change is refused before anything is emitted, and every commit on the
\* wire is a list of content and metadata changes, or one pin, or one page
\* deletion.
C8_HomogeneousOnTheWire ==
  \A p \in Callers :
    /\ \A i \in 1..Len(sent[p]) : Homogeneous(sent[p][i].commit.changes)
    /\ InFlight(p) => Homogeneous(chan[p].commit.changes)
    /\ (PastComputing(p) /\ ~Homogeneous(ChangeComputer(computer[p], snapshot[p]))) =>
         /\ pc[p] = "Thrown" /\ result[p].tag = "Throw"
         /\ SentFromHead(p) = {}
         /\ ~InFlight(p)

C8_Witness ==
  \E p \in Callers :
    /\ pc[p] = "Thrown" /\ computer[p] \in {"pinAndEdit", "deleteAndEdit"}
    /\ sent[p] = <<>> /\ cause[p] = "none"

TransportErrors == {"NetworkError", "AbortError"}
ForbiddenErrors == {"NotFoundError", "NotLoggedInError", "NotMemberError"}
HTTPErrors == {"TooLongURIError", "HTTPError"}

\* C9: a pull that failed for a transport error and a pull that failed
\* because the page is forbidden or not found hand different outcomes to
\* their callers.
C9_PullOutcomesDistinct ==
  \A p \in Callers :
    cause[p] \in TransportErrors =>
      \A o \in FetchOutcomes :
        getPage(o, PageOf(doc[p])).val \in ForbiddenErrors =>
          result[p] # Raised(pull(doc[p], o, PageOf(doc[p])).val)

\* C10: no error of the taxonomy, a failed fetch of the snapshot included,
\* leaves the call as an exception; it is returned as a result value.
C10_NeverThrows ==
  \A p \in Callers :
    cause[p] \in TransportErrors \cup ForbiddenErrors \cup HTTPErrors =>
      result[p].tag # "Throw"

\* C17: isPageCommitError answers true for SocketIOError,
\* DuplicateTitleError and NotFastForwardError and false for every other
\* name, TimeoutError, UnexpectedRequestError and
\* SocketIOServerDisconnectError among them.
C17_IsPageCommitError ==
  (io.fn = "isPageCommitError" /\ io.done) =>
    /\ io.out.tag = "Bool"
    /\ io.out.val <=>
         io.name \in {"SocketIOError", "DuplicateTitleError", "NotFastForwardError"}
    /\ io.name \in {"TimeoutError", "UnexpectedRequestError",
                    "SocketIOServerDisconnectError"} => ~io.out.val

C17_Witness ==
  /\ io.fn = "isPageCommitError" /\ io.done
  /\ io.name = "TimeoutError" /\ io.out.val = FALSE

RecognisedByGetPage == {"NotFoundError", "NotLoggedInError", "NotMemberError"}

\* C19: getPage gives each outcome of the fetch exactly one result: the
\* page for an OK response; TooLongURIError for status 414, whatever the
\* body; the error the body names for another non-OK response whose body
\* names NotFoundError, NotLoggedInError or NotMemberError; HTTPError for
\* any other non-OK response; and for a failed fetch the very error
\* robustFetch returned, the absent response never being read.
C19_GetPageOutcomes ==
  (io.fn = "getPage" /\ io.done) =>
    LET o == io.outcome
        r == o.response
    IN /\ (o.kind = "resolve" /\ r.ok) =>
             io.out.tag = "Ok" /\ io.out.val = io.page
       /\ (o.kind = "resolve" /\ ~r.ok) =>
             /\ io.out.tag = "Err"
             /\ io.out.val =
                  IF r.status = 414 THEN "TooLongURIError"
                  ELSE IF r.name \in RecognisedByGetPage THEN r.name
                  ELSE "HTTPError"
       /\ (o.kind = "throw" /\ robustFetch(o).tag = "Err") =>
             /\ io.out = robustFetch(o)
             /\ io.out.val \in {"AbortError", "NetworkError"}

C19_Witness ==
  /\ io.fn = "getPage" /\ io.done
  /\ io.outcome.kind = "resolve"
  /\ io.outcome.response.status = 414
  /\ io.outcome.response.name = "NotFoundError"
  /\ io.out = Err("TooLongURIError")

\* C20: robustFetch returns Ok(response) when fetch resolves, Err(AbortError)
\* when fetch throws a DOMException named AbortError, Err(NetworkError) when
\* it throws a TypeError, rethrows every other exception, and never returns
\* Ok for a fetch that threw.
C20_RobustFetch ==
  (io.fn = "robustFetch" /\ io.done) =>
    LET o == io.outcome
        e == o.exc
    IN /\ o.kind = "resolve" => (io.out.tag = "Ok" /\ io.out.val = o.response)
       /\ o.kind = "throw" =>
            /\ io.out.tag # "Ok"
            /\ io.out =
                 IF e.class = "DOMException" /\ e.name = "AbortError"
                 THEN Err("AbortError")
                 ELSE IF e.class = "TypeError" THEN Err("NetworkError")
                 ELSE Throw(e.name)

C20_Witness ==
  /\ io.fn = "robustFetch" /\ io.done
  /\ io.outcome.kind = "throw"
  /\ io.outcome.exc = Exception("Error", "AbortError")
  /\ io.out = Throw("AbortError")

\* C18: the change computer of deletePage yields the single change
\* {deleted: true} for a persistent head and no change otherwise; so every
\* commit a deletePage call emits carries that one change and nothing
\* else, and a head that is not persistent gets no commit at all.
C18_DeletePageComputer ==
  \A p \in Callers :
    computer[p] = "deletePage" =>
      /\ \A i \in 1..Len(sent[p]) : sent[p][i].commit.changes = <<DeletePageChange>>
      /\ InFlight(p) => chan[p].commit.changes = <<DeletePageChange>>
      /\ PastComputing(p) =>
           /\ ChangeComputer(computer[p], snapshot[p]) =
                (IF snapshot[p].persistent THEN <<DeletePageChange>> ELSE <<>>)
           /\ ~snapshot[p].persistent => SentFromHead(p) = {}

C18_Witness ==
  \E p \in Callers :
    /\ computer[p] = "deletePage" /\ pc[p] = "Succeeded"
    /\ snapshot[p].persistent
    /\ Last(acks[p]) = "ok"
    /\ Last(sent[p]).commit.changes = <<DeletePageChange>>

RecognisedCommitErrors ==
  {"SocketIOError", "DuplicateTitleError", "NotFastForwardError"}
\* The answers of the server that carry an error of no recognised name.
Unexpected(name) ==
  name \notin RecognisedCommitErrors \cup {"ok", "TimeoutError"}

\* C13: a submit answered with an error whose name is none of the three
\* recognised ones ends the call in Failed at once: it is the last answer,
\* nothing is pulled, computed or emitted after it, the retry counter is
\* left as it was whatever the budget still allowed, and the result is an
\* UnexpectedRequestError that carries the server's error as it came.
C13_UnexpectedIsTerminal ==
  \A p \in Callers :
    /\ \A i \in 1..Len(acks[p]) :
         Unexpected(acks[p][i]) =>
           /\ i = Len(acks[p]) /\ Len(sent[p]) = i
           /\ ~InFlight(p)
           /\ pc[p] = "Failed"
           /\ result[p] = Failure("UnexpectedRequestError", acks[p][i], doc[p])
           /\ Len(pulled[p]) = sent[p][i].pulls
           /\ computes[p] = sent[p][i].computes
    /\ (acks[p] # <<>> /\ Unexpected(acks[p][1])) =>
           /\ attempts[p] = join[p].failures /\ attempts[p] <= Budget
           /\ Len(pulled[p]) = 1 /\ Len(sent[p]) = 1

C13_Witness ==
  \E p \in Callers :
    /\ acks[p] = <<"BadRequestError">> /\ pc[p] = "Failed"
    /\ result[p].error.name = "UnexpectedRequestError"
    /\ result[p].error.message = "BadRequestError"

AuthorizationErrors == {"NotLoggedInError", "NotMemberError", "NotFoundError"}

\* C14: a snapshot fetch refused for authorization ends the call at once,
\* with no further pull and no submit, whereas a snapshot fetch that
\* failed in transport does not end the call while the retry budget
\* lasts.
C14_AuthTerminalTransportRetried ==
  \A p \in Callers :
    /\ cause[p] \in AuthorizationErrors =>
         /\ pc[p] \in Terminal
         /\ sent[p] = <<>> /\ ~InFlight(p)
    /\ cause[p] = "NetworkError" =>
         (pc[p] \in Terminal => attempts[p] > Budget)

TransientAnswers == {"SocketIOError", "TimeoutError"}

C15_JoinBeforeCommit ==
  /\ \A d \in Docs : member[d] => joined[d]
  /\ \A p \in Callers :
       /\ InFlight(p) =>
            joined[chan[p].commit.pageId] /\ member[chan[p].commit.pageId]
       /\ sent[p] # <<>> => joined[doc[p]]
       /\ pc[p] = "Joining" =>
            /\ ~InFlight(p) /\ SentFromHead(p) = {}
            /\ join[p].state \in {"req", "ok", "err"}
       /\ join[p].state = "failed" =>
            /\ pc[p] = "Retrying" /\ attempts[p] <= Budget
            /\ ~InFlight(p)
       /\ result[p].error.message = "room:join" =>
            /\ pc[p] = "Failed" /\ result[p].tag = "Err"
            /\ attempts[p] = Budget + 1 /\ join[p].failures >= 1

C15_Witness ==
  \E p \in Callers :
    /\ join[p].failures = 1 /\ pc[p] = "Succeeded"
    /\ acks[p] = <<"ok">> /\ joined[doc[p]]

Active == {"Queued", "Pulling", "Computing", "Joining", "Submitting", "Retrying"}

\* C12: in every state of a call that has started and not ended the
\* cancellation signal can end it, and a cancelled call has no commit and
\* no room:join waiting for an answer, the engine's record of the rooms
\* agreeing with the server's.
C12_AbortableInAnyState ==
  \A p \in Callers :
    /\ pc[p] \in Active => ENABLED Cancel(p)
    /\ pc[p] = "Cancelled" =>
         /\ ~InFlight(p) /\ join[p].state = "none"
         /\ \A d \in Docs : member[d] => joined[d]

\* C21: a call of listen that finds the signal aborted registers nothing;
\* any other call registers the listener, which stays registered until the
\* signal aborts (or, with once, until the first occurrence), and after the
\* abort the listener is off the socket and is invoked for no occurrence.
C21_ListenCleanup ==
  socket.fn = "listen" =>
    /\ (socket.called /\ socket.abortedAtCall) =>
         socket.registered = "none" /\ socket.invoked = 0
    /\ (socket.called /\ ~socket.abortedAtCall /\ socket.signal # "aborted" /\
        ~(socket.once /\ socket.due >= 1)) =>
         socket.registered # "none"
    /\ socket.signal = "aborted" =>
         socket.registered = "none" /\ socket.late = 0

\* C22: with once the listener is invoked for the first occurrence after
\* the registration and for no other, and is off the socket afterwards;
\* without once it is invoked for every occurrence until it is removed.
C22_ListenOnce ==
  (socket.fn = "listen" /\ socket.called) =>
    /\ socket.once =>
         /\ socket.invoked <= 1
         /\ socket.due >= 1 => (socket.invoked = 1 /\ socket.registered = "none")
    /\ ~socket.once => socket.invoked = socket.due

\* The line a value refers to: the 0-based index of the line of the page
\* it names, or no line.
RefersTo(lines, value) ==
  CASE value.kind = "number" ->
         IF value.n >= 0 /\ value.n < Len(lines) THEN {value.n} ELSE {}
    [] value.kind \in {"string", "lineDOM", "childDOM"} ->
         { i - 1 : i \in { j \in 1..Len(lines) : lines[j] = value.id } }
    [] OTHER -> {}

\* C23: getLineNo gives a number back as it is, gives the index of the
\* line for an id or an element of a line of the page, and gives undefined
\* whenever there is no such line.
C23_GetLineNo ==
  (io.fn = "getLineNo" /\ io.done) =>
    LET r == RefersTo(io.lines, io.value)
    IN /\ io.value.kind = "number" => io.out = Num(io.value.n)
       /\ (io.value.kind # "number" /\ r # {}) =>
            (io.out.tag = "Number" /\ io.out.num \in r)
       /\ (io.value.kind # "number" /\ r = {}) => io.out = Undefined

\* C24: getNextLine gives the line right after the line referred to and
\* getPrevLine the line right before it, and both give undefined when
\* there is no such line: the reference matches no line of the page, or
\* the line referred to is the last (the first) one.
C24_NextPrevLine ==
  (io.fn \in {"getNextLine", "getPrevLine"} /\ io.done) =>
    LET r == RefersTo(io.lines, io.value)
        step == IF io.fn = "getNextLine" THEN 1 ELSE 0 - 1
    IN /\ r = {} => io.out = Undefined
       /\ \A i \in r : io.out = At(io.lines, i + step)

\* C25: getChars yields each character element of the element exactly once, so
\* its n yields are pairwise distinct and are the element's characters in order;
\* getText of an element inside a line is the line's text from the smallest to
\* the largest character index the element contains.
C25_GetChars ==
  /\ (io.fn = "getChars" /\ io.done) =>
       /\ Len(io.out) = Len(io.chars)
       /\ \A i, j \in DOMAIN io.out : i # j => io.out[i] # io.out[j]
       /\ Range(io.out) = Range(io.chars)
  /\ (io.fn = "getText" /\ io.done /\ io.chars # <<>>) =>
       io.out = SubSeq(io.text, io.chars[1] + 1, io.chars[Len(io.chars)] + 1)

\* C26: findLatestCache returns the response of the most recent cache that holds
\* one for the request, and undefined when no cache holds one, whatever caches the
\* storage contains.
Hits(storage) == {c \in storage : c.hit}

C26_FindLatestCache ==
  (io.fn = "findLatestCache" /\ io.done) =>
    IF Hits(io.storage) = {} THEN io.out = Undefined
    ELSE /\ io.out \in Hits(io.storage)
         /\ \A c \in Hits(io.storage) : ~Earlier(io.out.at, c.at)

\* C27: getCSRFToken returns init.csrf when there is one, else the global _csrf
\* when there is one, both without requesting the profile; only with neither it
\* requests the profile and returns its csrfToken, or the error of the request.
\* A token is taken to be there when it is a non-empty string.
C27_GetCSRFToken ==
  (io.fn = "getCSRFToken" /\ io.done) =>
    /\ Truthy(io.init) => io.out = [result |-> Ok(io.init.id), fetched |-> FALSE]
    /\ (~Truthy(io.init) /\ Truthy(io.global)) =>
         io.out = [result |-> Ok(io.global.id), fetched |-> FALSE]
    /\ (~Truthy(io.init) /\ ~Truthy(io.global)) =>
         /\ io.out.fetched
         /\ (io.outcome.kind = "resolve" /\ io.outcome.response.ok) =>
              io.out.result = Ok(profileToken)
         /\ (io.outcome.kind = "resolve" /\ ~io.outcome.response.ok) =>
              io.out.result = Err("HTTPError")
         /\ robustFetch(io.outcome).tag = "Err" => io.out.result = robustFetch(io.outcome)

\* C28: getIndentCount(text) is the number of whitespace characters (space, tab,
\* full-width space, one each) in front of the first other character of text;
\* whitespace behind that character is not counted, and a text that starts with
\* another character gives 0.
Whitespace == {32, 9, 12288}

LeadingWhitespace(text) ==
  IF \A i \in DOMAIN text : text[i] \in Whitespace THEN Len(text)
  ELSE (CHOOSE i \in DOMAIN text :
          /\ text[i] \notin Whitespace
          /\ \A k \in 1..(i - 1) : text[k] \in Whitespace) - 1

IsPrefix(s, t) == Len(s) <= Len(t) /\ SubSeq(t, 1, Len(s)) = s

C29_UploadOrder ==
  gcs.fn = "uploadToGCS" =>
    /\ IsPrefix(gcs.issued, <<"upload-request", "upload", "verify">>)
    /\ Len(gcs.issued) >= 2 => gcs.request = Ok("UploadRequest")
    /\ (Len(gcs.issued) = 3 \/ gcs.verify # NotRun) => gcs.upload = Ok("undefined")
    /\ gcs.pc = "done" =>
         /\ gcs.request # Ok("UploadRequest") =>
              gcs.result = gcs.request /\ gcs.upload = NotRun /\ gcs.verify = NotRun
         /\ (gcs.request = Ok("UploadRequest") /\ gcs.upload # Ok("undefined")) =>
              gcs.result = gcs.upload /\ gcs.verify = NotRun
         /\ gcs.upload = Ok("undefined") => gcs.result = gcs.verify /\ gcs.verify # NotRun

\* All three requests were issued and the file came back.
C29_Witness ==
  /\ gcs.fn = "uploadToGCS" /\ gcs.pc = "done"
  /\ gcs.issued = <<"upload-request", "upload", "verify">>
  /\ gcs.result = Ok("GCSFile")

\* C30: click dispatches mousedown, mouseup, click and holdDown dispatches
\* touchstart, mousedown, mouseup, touchend, click, each in this order; the
\* promise resolves only when the last click has been dispatched; holdDown
\* dispatches no mouseup before the holding delay (options.holding, 1000 ms
\* without it) has passed since the mousedown.
Expected(fn) ==
  IF fn = "click" THEN <<"mousedown", "mouseup", "click">>
  ELSE <<"touchstart", "mousedown", "mouseup", "touchend", "click">>

C30_ClickOrder ==
  mouse.fn \in {"click", "holdDown"} =>
    /\ IsPrefix(mouse.events, Expected(mouse.fn))
    /\ mouse.resolved => mouse.events = Expected(mouse.fn)
    /\ (mouse.fn = "holdDown" /\ "mouseup" \in Range(mouse.events)) =>
         mouse.clock - mouse.downAt >=
           (IF mouse.holding = Undefined THEN 1000 ELSE mouse.holding.num)

\* A long tap of two milliseconds went through to its resolution.
C30_Witness ==
  /\ mouse.fn = "holdDown" /\ mouse.holding = Num(2)
  /\ mouse.resolved
  /\ mouse.events = <<"touchstart", "mousedown", "mouseup", "touchend", "click">>

====
